---- MODULE Spec2Model ----
(***************************************************************************)
(* Model of the Stamp Info add-on's dependency installer                   *)
(* (stampinfo/install/install_dependencies.py) and of the OS helpers it    *)
(* calls (stampinfo/utils/utils_os.py).                                    *)
(*                                                                         *)
(* install_dependencies walks a list of (module name, package name)        *)
(* tuples and calls install_library on each; install_library probes the    *)
(* interpreter, the network and the library directory and then runs pip.   *)
(* Every call to the outside world (import, urlopen, is_admin, isfile,     *)
(* os.remove, os.access, open/write, subprocess.run) is a step whose       *)
(* outcome is chosen by the environment.                                   *)
(*                                                                         *)
(* The add-on's settings (stampinfo/stampInfoSettings.py) are modelled as  *)
(* a second machine over the property group's stored values and the host's *)
(* four render handler lists; its specification is SpecSettings.           *)
(* delete_folder (utils_os.py) runs over a directory whose entries are     *)
(* plain files, sub-directories or locked files (SpecFolder); the two      *)
(* operators of stampinfo/utils/utils_ui.py run on a platform, a path and  *)
(* a file system chosen at the start (SpecOperators); register() and       *)
(* unregister() of the modules run against the host's class registry       *)
(* (SpecRegistry).  Each machine leaves the variables of the others alone. *)
(***************************************************************************)
EXTENDS Integers, Sequences, FiniteSets, TLC

\* Longest dependency list handed to install_dependencies.
MaxDeps == 2

\* lib_names tuples: (module name, package name), as in ("PIL", "pillow").
LibPool == { <<"PIL", "pillow">>, <<"otio", "opentimelineio">> }

\* sys.platform values that internet_on distinguishes.
Platforms == {"darwin", "win32"}

\* Caller-supplied pip retry counts and timeouts (seconds).
RetriesSet == {0, 2}
TimeoutSet == {-100, 0, 30}

\* Values returned by is_admin().
IsAdminValues == BOOLEAN

\* Exit codes of the pip subprocess.
PipExitCodes == {0, 1, 2}

\* sys.executable
pyExeFile == "python"

\* The ladder with two rungs exchanged.
TimeoutsShuffled == <<1, 10, 5, 15>>

\* for timeout in [1, 5, 10, 15]
Timeouts == <<1, 5, 10, 15>>

\* The value that replaces a non-positive pip_timeout.
DefaultPipTimeout == 100

VARIABLES
    platform,           \* sys.platform
    dependencies_list,  \* install_dependencies argument
    retries,            \* install_dependencies argument
    timeout,            \* install_dependencies argument
    pc,                 \* position in the code
    depIdx,             \* position of the for loop of install_dependencies
    lib_names,          \* install_library argument
    pip_retries,        \* install_library argument
    pip_timeout,        \* install_library argument (reassigned before pip)
    error_messages,     \* install_library's list of (message, code) pairs
    probes,             \* internet_on: (timeout, outcome) of the urlopen calls made so far
    netResult,          \* value returned by internet_on
    hasAccess,          \* value returned by os.access(localPyDir, os.W_OK)
    subRc,              \* subError.returncode
    tmp_file_exists,    \* StampInfo_Tmp.txt exists in the library directory
    calls,              \* external calls of the running install_library, with outcomes
    probed,             \* loop positions for which install_library was called
    pipCalls,           \* subprocess.run invocations: loop position and argv
    libResults,         \* lists returned by install_library, in call order
    prefs_registered,   \* number of addon_error_prefs.register() calls
    error_message,      \* preferences field error_message, as a list of writes
    returned,           \* <<>> until install_dependencies returns, then <<value>>
    raised,             \* "" or the exception that left install_dependencies
    effects,            \* of the run so far: every import check succeeded; something else was called
    install_failed,     \* attribute install_failed of the add-on preferences: "absent", "false", "true"
    prefs_unregistered, \* number of addon_error_prefs.unregister() calls
    unreg_returned      \* unregister_from_failed_install calls: (install_failed before, value returned)

installerVars ==
        << platform, dependencies_list, retries, timeout, pc, depIdx, lib_names,
           pip_retries, pip_timeout, error_messages, probes, netResult,
           hasAccess, subRc, tmp_file_exists, calls, probed, pipCalls,
           libResults, prefs_registered, error_message, returned, raised,
           effects, install_failed, prefs_unregistered, unreg_returned >>

\* UAS_StampInfoSettings and bpy.app.handlers
VARIABLES
    props,              \* values stored in the property group: self["..."]
    app_handlers,       \* bpy.app.handlers: render_init, render_pre, render_complete, render_cancel
    lastOp,             \* the last operation on the settings and its argument
    prevOp,             \* the operation before the last
    compoClears,        \* stamper.clearInfoCompoNodes calls made by the last operation
    assignOnly          \* no direct registerRenderHandlers / clearRenderHandlers call so far

settingsVars == << props, app_handlers, lastOp, prevOp, compoClears, assignOnly >>

\* delete_folder and the directory it is given
VARIABLES
    dir_path_kind,      \* what dir_path names: "missing", "dir" or "file"
    files_in_directory, \* os.listdir(dir_path): the kind of each entry
    present,            \* the entries (positions of files_in_directory) that still exist
    dir_exists,         \* dir_path still exists
    rmdir_denied,       \* the system refuses to remove the directory itself
    df_pc,              \* position in delete_folder
    df_i                \* position of the loop in files_in_directory

folderVars == << dir_path_kind, files_in_directory, present, dir_exists,
                 rmdir_denied, df_pc, df_i >>

\* The operators of utils_ui.py: UAS_StampInfo_OpenExplorer, UAS_OT_Open_Documentation_Url
VARIABLES
    ui_platform,        \* sys.platform
    op_shift,           \* event.shift
    op_path,            \* self.path of OpenExplorer, absolute: the names below the drive or root
    op_trailing_sep,    \* self.path of OpenExplorer ends with a separator
    exist_depth,        \* how many levels of op_path exist (-1: not even the drive)
    op_url,             \* self.path of Open_Documentation_Url
    op_name,            \* the operator that was invoked ("": none yet)
    subprocess_calls,   \* (function, command) of the subprocess calls made
    opened,             \* the commands that opened an explorer window or a browser
    clipboard,          \* the text on the OS clipboard (<< >>: never written)
    message_boxes,      \* (message lines, title, icon) of the popups shown
    op_result,          \* what invoke returned (<< >>: nothing)
    op_raised           \* the exception that left invoke ("": none)

opInputs == << ui_platform, op_shift, op_path, op_trailing_sep, exist_depth, op_url >>
opVars == << opInputs, op_name, subprocess_calls, opened, clipboard, message_boxes,
             op_result, op_raised >>

\* The host's class registry and the register() / unregister() of the modules
VARIABLES
    registry,           \* the classes and sub-modules registered with the host, in order
    registered_modules, \* the modules whose register() ran and whose unregister() did not
    reg_trace,          \* per module: what its last register() registered, in order
    unreg_trace,        \* per module: what its last unregister() unregistered, in order
    registry_before,    \* per module: the registry when its last register() was called
    last_reg_ops        \* the last two calls: (function, module)

regVars == << registry, registered_modules, reg_trace, unreg_trace, registry_before,
              last_reg_ops >>

\* Everything but the installer.
hostVars == << settingsVars, folderVars, opVars, regVars >>

vars == << installerVars, hostVars >>

\* The settings before any property was assigned and any handler registered.
NoProps == [stampInfoUsed |-> << >>, stampInfoRenderMode |-> << >>]
NoHandlers == [render_init |-> << >>, render_pre |-> << >>,
               render_complete |-> << >>, render_cancel |-> << >>]
SettingsIdle ==
    /\ props = NoProps
    /\ app_handlers = NoHandlers
    /\ lastOp = << "none", "" >>
    /\ prevOp = << "none", "" >>
    /\ compoClears = 0
    /\ assignOnly = TRUE

\* delete_folder not called, on a path that does not exist.
FolderIdle ==
    /\ dir_path_kind = "missing"
    /\ files_in_directory = << >>
    /\ present = {}
    /\ dir_exists = FALSE
    /\ rmdir_denied = FALSE
    /\ df_pc = "call"
    /\ df_i = 1

\* No operator invoked.
OperatorsIdle ==
    /\ ui_platform = "win32"
    /\ op_shift = FALSE
    /\ op_path = << >>
    /\ op_trailing_sep = FALSE
    /\ exist_depth = 0
    /\ op_url = ""
    /\ op_name = ""
    /\ subprocess_calls = << >>
    /\ opened = << >>
    /\ clipboard = << >>
    /\ message_boxes = << >>
    /\ op_result = << >>
    /\ op_raised = ""

Modules == { "utils_ui", "operators.debug", "ui" }

\* No module registered.
RegistryIdle ==
    /\ registry = << >>
    /\ registered_modules = {}
    /\ reg_trace = [m \in Modules |-> << >>]
    /\ unreg_trace = [m \in Modules |-> << >>]
    /\ registry_before = [m \in Modules |-> << >>]
    /\ last_reg_ops = << << "none", "" >>, << "none", "" >> >>

HostIdle == SettingsIdle /\ FolderIdle /\ OperatorsIdle /\ RegistryIdle

inputs == << platform, dependencies_list, retries, timeout >>

\* Sequences over S of length 0..n.
SeqUpTo(S, n) == UNION { [1..k -> S] : k \in 0..n }

----------------------------------------------------------------------------
\* Error messages: the f-strings of install_library.

ErrorText(errorInd, lib_name) ==
    CASE errorInd = 1  -> "Cannot connect to Internet. Blocked by firewall?"
      [] errorInd = 21 -> "Cannot modify to Blender Python folder. Need Admin rights?"
      [] errorInd = 22 -> "Cannot write to Blender Python folder. Need Admin rights?"
      [] errorInd = 23 -> "Has access but cannot write to Blender Python folder. Need Admin rights?"
      [] errorInd = 3  -> "Library " \o lib_name \o " installed but cannot be imported"
      [] errorInd = 4  -> "Library " \o lib_name \o " cannot be downloaded"
      [] errorInd = 5  -> "Error during installation of library " \o lib_name
      [] errorInd = 6  -> "Error during installation of library " \o lib_name

\* errorMess = f"Err.{errorInd}: ..."
ErrorMess(errorInd, lib_name) ==
    "Err." \o ToString(errorInd) \o ": " \o ErrorText(errorInd, lib_name)

\* error_messages.append((errorMess, errorInd))
ErrorPair(errorInd, lib_name) == << ErrorMess(errorInd, lib_name), errorInd >>

\* PipTimeout with the test written as 0 > pip_timeout.
PipTimeoutStrict(t) == IF 0 > t THEN DefaultPipTimeout ELSE t

\* if 0 >= pip_timeout: pip_timeout = 100
PipTimeout(t) == IF 0 >= t THEN DefaultPipTimeout ELSE t

\* PipArgv with the values of --default-timeout and --retries exchanged.
PipArgvSwapped(exe, names, r, t) ==
    << exe, "-m", "pip", "--default-timeout", ToString(r),
       "--retries", ToString(t), "install", names[2], "--ignore-installed" >>

\* The argument list of subprocess.run.
PipArgv(exe, names, r, t) ==
    << exe, "-m", "pip", "--default-timeout", ToString(t),
       "--retries", ToString(r), "install", names[2], "--ignore-installed" >>

\* WriteErrorInd with the two branches exchanged.
WriteErrorIndSwapped(access) == IF access THEN 22 ELSE 23

\* Error code of a failed write probe, by the result of os.access.
WriteErrorInd(access) == IF ~access THEN 22 ELSE 23

\* ExceptErrorInd with the test inverted.
ExceptErrorIndInverted(rc) == IF 0 # rc THEN 5 ELSE 6

\* Error code of the except clause, by ex.returncode.
ExceptErrorInd(rc) == IF 0 = rc THEN 5 ELSE 6

----------------------------------------------------------------------------
\* install_library and install_dependencies as functions of the outcomes of
\* their external calls (the same code, read top to bottom in one piece).

\* One combination of outcomes of the external calls of install_library.
LibOutcomes ==
    [ imp1   : {"ok", "missing", "error"},     \* module_can_be_imported, line 43
      net    : {"True", "False", "raise"},     \* internet_on
      admin  : IsAdminValues,                  \* is_admin
      isfile : BOOLEAN,                        \* isfile(tmp_file)
      remove : {"ok", "fail"},                 \* os.remove(tmp_file)
      access : BOOLEAN,                        \* os.access(localPyDir, os.W_OK)
      write  : {"ok", "open_fails", "write_fails"},
      pip    : {"exit", "OSError"},            \* subprocess.run
      rc     : PipExitCodes,                   \* subError.returncode
      imp2   : {"ok", "missing", "error"} ]    \* module_can_be_imported, line 137

LibRaises == [ raised |-> TRUE, codes |-> << >> ]
LibReturns(codes) == [ raised |-> FALSE, codes |-> codes ]

\* The codes of the list install_library returns, or that an exception leaves it.
InstallLibraryResult(o) ==
    IF o.imp1 = "ok" THEN LibReturns(<< >>)
    ELSE IF o.imp1 = "error" THEN LibRaises
    ELSE IF o.net = "raise" THEN LibRaises
    ELSE IF o.net = "False" THEN LibReturns(<< 1 >>)
    ELSE IF ~ o.admin /\ o.isfile /\ o.remove = "fail" THEN LibReturns(<< 21 >>)
    ELSE IF ~ o.admin /\ o.write # "ok" THEN LibReturns(<< WriteErrorInd(o.access) >>)
    ELSE IF o.pip = "OSError" THEN LibRaises
    ELSE IF 0 = o.rc
           THEN CASE o.imp2 = "ok"      -> LibReturns(<< >>)
                  [] o.imp2 = "missing" -> LibReturns(<< 3 >>)
                  [] o.imp2 = "error"   -> LibRaises
    ELSE LibReturns(<< 4, ExceptErrorInd(o.rc) >>)

\* The value install_dependencies returns for a list of libraries with the
\* outcomes os, or that an exception leaves it.
RECURSIVE InstallDependenciesResult(_)
InstallDependenciesResult(os) ==
    IF os = << >> THEN [ raised |-> FALSE, value |-> 0 ]
    ELSE LET r == InstallLibraryResult(Head(os))
         IN  IF r.raised THEN [ raised |-> TRUE, value |-> 0 ]
             ELSE IF 0 < Len(r.codes) THEN [ raised |-> FALSE, value |-> r.codes[1] ]
             ELSE InstallDependenciesResult(Tail(os))

----------------------------------------------------------------------------
\* No import check failed and nothing else was called.
NoEffects == [importable |-> TRUE, acted |-> FALSE]

\* Calls of unregister_from_failed_install followed in one run.
MaxUnregisterCalls == 2

\* install_failed of the preferences once addon_error_prefs.register() has put the error
\* preferences in place, and once addon_error_prefs.unregister() has taken them away.
ErrorPrefsRegistered == "true"
ErrorPrefsUnregistered == "absent"

Init ==
    /\ platform \in Platforms
    /\ dependencies_list \in SeqUpTo(LibPool, MaxDeps)
    /\ retries \in RetriesSet
    /\ timeout \in TimeoutSet
    /\ tmp_file_exists \in BOOLEAN
    /\ pc = "dep_loop"
    /\ depIdx = 1
    /\ lib_names = << "", "" >>
    /\ pip_retries = 0
    /\ pip_timeout = 0
    /\ error_messages = << >>
    /\ probes = << >>
    /\ netResult = FALSE
    /\ hasAccess = FALSE
    /\ subRc = 0
    /\ calls = << >>
    /\ probed = {}
    /\ pipCalls = << >>
    /\ libResults = << >>
    /\ prefs_registered = 0
    /\ error_message = << >>
    /\ returned = << >>
    /\ raised = ""
    /\ effects = NoEffects
    /\ install_failed \in { "absent", "false" }
    /\ prefs_unregistered = 0
    /\ unreg_returned = << >>
    /\ HostIdle

\* Variables of install_dependencies and of the host that install_library leaves alone.
depFrame == << depIdx, probed, libResults, prefs_registered, error_message, returned >>

\* Locals of install_library.
libLocals == << lib_names, pip_retries, pip_timeout >>

\* The preferences and the calls of unregister_from_failed_install.
prefsFrame == << install_failed, prefs_unregistered, unreg_returned >>

Called(call, outcome) ==
    /\ calls' = Append(calls, << call, outcome >>)
    /\ effects' = [importable |-> effects.importable /\ ~ (call = "import" /\ outcome # "ok"),
                   acted |-> effects.acted \/ call # "import"]

\* An exception that no handler catches leaves install_library and install_dependencies.
Raise(exc) == /\ pc' = "raised"
              /\ raised' = exc

----------------------------------------------------------------------------
\* install_dependencies

\* for dependencyLib in dependencies_list: installation_errors = install_library(...)
DepCall ==
    /\ pc = "dep_loop"
    /\ depIdx <= Len(dependencies_list)
    /\ lib_names' = dependencies_list[depIdx]
    /\ pip_retries' = retries
    /\ pip_timeout' = timeout
    /\ error_messages' = << >>
    /\ calls' = << >>
    /\ probed' = probed \cup {depIdx}
    /\ pc' = "il_import"
    /\ UNCHANGED hostVars
    /\ UNCHANGED effects
    /\ UNCHANGED prefsFrame
    /\ UNCHANGED << inputs, depIdx, probes, netResult, hasAccess, subRc,
                    tmp_file_exists, pipCalls, libResults, prefs_registered,
                    error_message, returned, raised >>

\* The loop is exhausted: return 0
DepReturnZero ==
    /\ pc = "dep_loop"
    /\ depIdx > Len(dependencies_list)
    /\ returned' = << 0 >>
    /\ pc' = "done"
    /\ UNCHANGED hostVars
    /\ UNCHANGED effects
    /\ UNCHANGED prefsFrame
    /\ UNCHANGED << inputs, depIdx, libLocals, error_messages, probes, netResult,
                    hasAccess, subRc, tmp_file_exists, calls, probed, pipCalls,
                    libResults, prefs_registered, error_message, raised >>

\* DepFail without its return statement: the loop goes on after an error.
DepFailNoReturn ==
    /\ pc = "dep_check"
    /\ 0 < Len(error_messages)
    /\ libResults' = Append(libResults, error_messages)
    /\ prefs_registered' = prefs_registered + 1
    /\ error_message' = Append(error_message, error_messages[1][1])
    /\ depIdx' = depIdx + 1
    /\ pc' = "dep_loop"
    /\ UNCHANGED hostVars
    /\ UNCHANGED effects
    /\ install_failed' = ErrorPrefsRegistered
    /\ UNCHANGED << prefs_unregistered, unreg_returned >>
    /\ UNCHANGED << inputs, libLocals, error_messages, probes, netResult,
                    hasAccess, subRc, tmp_file_exists, calls, probed, pipCalls,
                    returned, raised >>

\* if 0 < len(installation_errors): register the panel, set the field, return the code
DepFail ==
    /\ pc = "dep_check"
    /\ 0 < Len(error_messages)
    /\ libResults' = Append(libResults, error_messages)
    /\ prefs_registered' = prefs_registered + 1
    /\ error_message' = Append(error_message, error_messages[1][1])
    /\ returned' = << error_messages[1][2] >>
    /\ pc' = "done"
    /\ UNCHANGED hostVars
    /\ UNCHANGED effects
    /\ install_failed' = ErrorPrefsRegistered
    /\ UNCHANGED << prefs_unregistered, unreg_returned >>
    /\ UNCHANGED << inputs, depIdx, libLocals, error_messages, probes, netResult,
                    hasAccess, subRc, tmp_file_exists, calls, probed, pipCalls,
                    raised >>

\* DepNext with the test written as 1 < len(installation_errors).
DepNextOffByOne ==
    /\ pc = "dep_check"
    /\ ~ (1 < Len(error_messages))
    /\ libResults' = Append(libResults, error_messages)
    /\ depIdx' = depIdx + 1
    /\ pc' = "dep_loop"
    /\ UNCHANGED hostVars
    /\ UNCHANGED effects
    /\ UNCHANGED prefsFrame
    /\ UNCHANGED << inputs, libLocals, error_messages, probes, netResult,
                    hasAccess, subRc, tmp_file_exists, calls, probed, pipCalls,
                    prefs_registered, error_message, returned, raised >>

\* No error: next library
DepNext ==
    /\ pc = "dep_check"
    /\ ~ (0 < Len(error_messages))
    /\ libResults' = Append(libResults, error_messages)
    /\ depIdx' = depIdx + 1
    /\ pc' = "dep_loop"
    /\ UNCHANGED hostVars
    /\ UNCHANGED effects
    /\ UNCHANGED prefsFrame
    /\ UNCHANGED << inputs, libLocals, error_messages, probes, netResult,
                    hasAccess, subRc, tmp_file_exists, calls, probed, pipCalls,
                    prefs_registered, error_message, returned, raised >>

----------------------------------------------------------------------------
\* install_library

\* The import test taken the other way round: the importable library is installed.
ImportCheckInverted ==
    /\ pc = "il_import"
    /\ \E o \in {"ok", "missing", "error"} :
         /\ Called("import", o)
         /\ CASE o = "ok"      -> pc' = "net_enter" /\ raised' = raised
              [] o = "missing" -> pc' = "il_return" /\ raised' = raised
              [] o = "error"   -> Raise("ImportError")
    /\ UNCHANGED hostVars
    /\ UNCHANGED prefsFrame
    /\ UNCHANGED << inputs, depFrame, libLocals, error_messages, probes,
                    netResult, hasAccess, subRc, tmp_file_exists, pipCalls >>

\* if not module_can_be_imported(lib_name):
ImportCheck ==
    /\ pc = "il_import"
    /\ \E o \in {"ok", "missing", "error"} :
         /\ Called("import", o)
         /\ CASE o = "ok"      -> pc' = "il_return" /\ raised' = raised
              [] o = "missing" -> pc' = "net_enter" /\ raised' = raised
              [] o = "error"   -> Raise("ImportError")
    /\ UNCHANGED hostVars
    /\ UNCHANGED prefsFrame
    /\ UNCHANGED << inputs, depFrame, libLocals, error_messages, probes,
                    netResult, hasAccess, subRc, tmp_file_exists, pipCalls >>

----------------------------------------------------------------------------
\* internet_on (called from install_library: if not internet_on())

\* value returned to install_library
NetReturn(v) ==
    /\ netResult' = v
    /\ Called("internet_on", IF v THEN "True" ELSE "False")
    /\ pc' = "il_net_test"
    /\ raised' = raised

\* if sys.platform == "darwin": return True
NetDarwin ==
    /\ pc = "net_enter"
    /\ platform = "darwin"
    /\ probes' = << >>
    /\ NetReturn(TRUE)
    /\ UNCHANGED hostVars
    /\ UNCHANGED prefsFrame
    /\ UNCHANGED << inputs, depFrame, libLocals, error_messages, hasAccess,
                    subRc, tmp_file_exists, pipCalls >>

\* any other platform: enter the for loop
NetStart ==
    /\ pc = "net_enter"
    /\ platform # "darwin"
    /\ probes' = << >>
    /\ pc' = "net_probe"
    /\ UNCHANGED hostVars
    /\ UNCHANGED effects
    /\ UNCHANGED prefsFrame
    /\ UNCHANGED << inputs, depFrame, libLocals, error_messages, netResult,
                    hasAccess, subRc, tmp_file_exists, calls, pipCalls, raised >>

\* urllib.request.urlopen("https://google.com", timeout=timeout) in the try block:
\* success returns True, URLError is passed over, anything else is not caught.
NetProbe ==
    /\ pc = "net_probe"
    /\ Len(probes) < Len(Timeouts)
    /\ \E o \in {"ok", "URLError", "other"} :
         /\ probes' = Append(probes, << Timeouts[Len(probes) + 1], o >>)
         /\ CASE o = "ok"       -> NetReturn(TRUE)
              [] o = "URLError" -> /\ UNCHANGED << pc, netResult, calls, raised >>
                                   /\ effects' = [effects EXCEPT !.acted = TRUE]
              [] o = "other"    -> /\ Raise("urlopen")
                                   /\ Called("internet_on", "raise")
                                   /\ UNCHANGED netResult
    /\ UNCHANGED hostVars
    /\ UNCHANGED prefsFrame
    /\ UNCHANGED << inputs, depFrame, libLocals, error_messages, hasAccess,
                    subRc, tmp_file_exists, pipCalls >>

\* the for loop is exhausted: return False
NetExhausted ==
    /\ pc = "net_probe"
    /\ ~ (Len(probes) < Len(Timeouts))
    /\ NetReturn(FALSE)
    /\ UNCHANGED hostVars
    /\ UNCHANGED prefsFrame
    /\ UNCHANGED << inputs, depFrame, libLocals, error_messages, probes,
                    hasAccess, subRc, tmp_file_exists, pipCalls >>

----------------------------------------------------------------------------
\* install_library, after the import check

\* NetTest without its return statement: error 1 is recorded and the checks go on.
NetTestNoReturn ==
    /\ pc = "il_net_test"
    /\ probes' = << >>
    /\ error_messages' = IF ~ netResult
                           THEN Append(error_messages, ErrorPair(1, lib_names[1]))
                           ELSE error_messages
    /\ pc' = "il_admin"
    /\ UNCHANGED hostVars
    /\ UNCHANGED effects
    /\ UNCHANGED prefsFrame
    /\ UNCHANGED << inputs, depFrame, libLocals, netResult, hasAccess, subRc,
                    tmp_file_exists, calls, pipCalls, raised >>

\* if not internet_on(): error 1, return
NetTest ==
    /\ pc = "il_net_test"
    /\ probes' = << >>
    /\ IF ~ netResult
         THEN /\ error_messages' = Append(error_messages, ErrorPair(1, lib_names[1]))
              /\ pc' = "il_return"
         ELSE /\ error_messages' = error_messages
              /\ pc' = "il_admin"
    /\ UNCHANGED hostVars
    /\ UNCHANGED effects
    /\ UNCHANGED prefsFrame
    /\ UNCHANGED << inputs, depFrame, libLocals, netResult, hasAccess, subRc,
                    tmp_file_exists, calls, pipCalls, raised >>

\* AdminCheck with the test written as "if is_admin()".
AdminCheckInverted ==
    /\ pc = "il_admin"
    /\ \E admin \in IsAdminValues :
         /\ Called("is_admin", IF admin THEN "True" ELSE "False")
         /\ pc' = IF admin THEN "il_isfile" ELSE "il_pip"
    /\ UNCHANGED hostVars
    /\ UNCHANGED prefsFrame
    /\ UNCHANGED << inputs, depFrame, libLocals, error_messages, probes,
                    netResult, hasAccess, subRc, tmp_file_exists, pipCalls, raised >>

\* if not is_admin():
AdminCheck ==
    /\ pc = "il_admin"
    /\ \E admin \in IsAdminValues :
         /\ Called("is_admin", IF admin THEN "True" ELSE "False")
         /\ pc' = IF ~ admin THEN "il_isfile" ELSE "il_pip"
    /\ UNCHANGED hostVars
    /\ UNCHANGED prefsFrame
    /\ UNCHANGED << inputs, depFrame, libLocals, error_messages, probes,
                    netResult, hasAccess, subRc, tmp_file_exists, pipCalls, raised >>

\* if isfile(tmp_file):
IsFile ==
    /\ pc = "il_isfile"
    /\ Called("isfile", IF tmp_file_exists THEN "True" ELSE "False")
    /\ pc' = IF tmp_file_exists THEN "il_remove" ELSE "il_access"
    /\ UNCHANGED hostVars
    /\ UNCHANGED prefsFrame
    /\ UNCHANGED << inputs, depFrame, libLocals, error_messages, probes,
                    netResult, hasAccess, subRc, tmp_file_exists, pipCalls, raised >>

\* os.remove(tmp_file) whose except clause records error 21 and goes on.
RemoveNoReturn ==
    /\ pc = "il_remove"
    /\ \E o \in {"ok", "fail"} :
         /\ Called("remove", o)
         /\ IF o = "ok"
              THEN /\ tmp_file_exists' = FALSE
                   /\ error_messages' = error_messages
              ELSE /\ tmp_file_exists' = tmp_file_exists
                   /\ error_messages' = Append(error_messages, ErrorPair(21, lib_names[1]))
    /\ pc' = "il_access"
    /\ UNCHANGED hostVars
    /\ UNCHANGED prefsFrame
    /\ UNCHANGED << inputs, depFrame, libLocals, probes, netResult, hasAccess,
                    subRc, pipCalls, raised >>

\* try: os.remove(tmp_file)  except Exception: error 21, return
Remove ==
    /\ pc = "il_remove"
    /\ \E o \in {"ok", "fail"} :
         /\ Called("remove", o)
         /\ IF o = "ok"
              THEN /\ tmp_file_exists' = FALSE
                   /\ error_messages' = error_messages
                   /\ pc' = "il_access"
              ELSE /\ tmp_file_exists' = tmp_file_exists
                   /\ error_messages' = Append(error_messages, ErrorPair(21, lib_names[1]))
                   /\ pc' = "il_return"
    /\ UNCHANGED hostVars
    /\ UNCHANGED prefsFrame
    /\ UNCHANGED << inputs, depFrame, libLocals, probes, netResult, hasAccess,
                    subRc, pipCalls, raised >>

\* if not os.access(localPyDir, os.W_OK):
Access ==
    /\ pc = "il_access"
    /\ \E w \in BOOLEAN :
         /\ hasAccess' = w
         /\ Called("access", IF w THEN "True" ELSE "False")
    /\ pc' = "il_write"
    /\ UNCHANGED hostVars
    /\ UNCHANGED prefsFrame
    /\ UNCHANGED << inputs, depFrame, libLocals, error_messages, probes,
                    netResult, subRc, tmp_file_exists, pipCalls, raised >>

\* A write probe that only counts when os.access agreed: without access error 22 is
\* returned even when the marker was written.
WriteProbeAccessDecides ==
    /\ pc = "il_write"
    /\ \E o \in {"ok", "open_fails", "write_fails"} :
         /\ Called("write", o)
         /\ tmp_file_exists' = IF o = "open_fails" THEN tmp_file_exists ELSE TRUE
         /\ IF o = "ok" /\ hasAccess
              THEN /\ error_messages' = error_messages
                   /\ pc' = "il_pip"
              ELSE /\ error_messages' = Append(error_messages,
                                               ErrorPair(WriteErrorInd(hasAccess), lib_names[1]))
                   /\ pc' = "il_return"
    /\ UNCHANGED hostVars
    /\ UNCHANGED prefsFrame
    /\ UNCHANGED << inputs, depFrame, libLocals, probes, netResult, hasAccess,
                    subRc, pipCalls, raised >>

\* try: f = open(tmp_file, "w"); f.write(...); f.close()
\* except Exception: error 22 (no access) or 23 (access), return.
\* open creates the file, so a failure of write or close leaves it behind.
WriteProbe ==
    /\ pc = "il_write"
    /\ \E o \in {"ok", "open_fails", "write_fails"} :
         /\ Called("write", o)
         /\ tmp_file_exists' = IF o = "open_fails" THEN tmp_file_exists ELSE TRUE
         /\ IF o = "ok"
              THEN /\ error_messages' = error_messages
                   /\ pc' = "il_pip"
              ELSE /\ error_messages' = Append(error_messages,
                                               ErrorPair(WriteErrorInd(hasAccess), lib_names[1]))
                   /\ pc' = "il_return"
    /\ UNCHANGED hostVars
    /\ UNCHANGED prefsFrame
    /\ UNCHANGED << inputs, depFrame, libLocals, probes, netResult, hasAccess,
                    subRc, pipCalls, raised >>

\* subError = subprocess.run([pyExeFile, "-m", "pip", ...]): the process runs and
\* exits with a return code, or it cannot be started and run raises OSError,
\* which "except subprocess.CalledProcessError" does not catch.
Pip ==
    /\ pc = "il_pip"
    /\ pip_timeout' = PipTimeout(pip_timeout)
    /\ pipCalls' = Append(pipCalls,
                          [dep |-> depIdx,
                           argv |-> PipArgv(pyExeFile, lib_names, pip_retries, pip_timeout')])
    /\ \/ \E rc \in PipExitCodes :
            /\ subRc' = rc
            /\ Called("pip", "exit")
            /\ pc' = "il_rc"
            /\ raised' = raised
       \/ /\ subRc' = subRc
          /\ Called("pip", "OSError")
          /\ Raise("OSError")
    /\ UNCHANGED hostVars
    /\ UNCHANGED prefsFrame
    /\ UNCHANGED << inputs, depFrame, lib_names, pip_retries, error_messages,
                    probes, netResult, hasAccess, tmp_file_exists >>

\* if 0 == subError.returncode: if module_can_be_imported(lib_name): pass  else: error 3
RcZero ==
    /\ pc = "il_rc"
    /\ 0 = subRc
    /\ \E o \in {"ok", "missing", "error"} :
         /\ Called("import", o)
         /\ CASE o = "ok"      -> /\ error_messages' = error_messages
                                  /\ pc' = "il_return"
                                  /\ raised' = raised
              [] o = "missing" -> /\ error_messages' = Append(error_messages,
                                                              ErrorPair(3, lib_names[1]))
                                  /\ pc' = "il_return"
                                  /\ raised' = raised
              [] o = "error"   -> /\ error_messages' = error_messages
                                  /\ Raise("ImportError")
    /\ UNCHANGED hostVars
    /\ UNCHANGED prefsFrame
    /\ UNCHANGED << inputs, depFrame, libLocals, probes, netResult, hasAccess,
                    subRc, tmp_file_exists, pipCalls >>

\* else: error 4; subError.check_returncode() raises CalledProcessError(returncode)
RcNonZero ==
    /\ pc = "il_rc"
    /\ ~ (0 = subRc)
    /\ error_messages' = Append(error_messages, ErrorPair(4, lib_names[1]))
    /\ pc' = "il_except"
    /\ UNCHANGED hostVars
    /\ UNCHANGED effects
    /\ UNCHANGED prefsFrame
    /\ UNCHANGED << inputs, depFrame, libLocals, probes, netResult, hasAccess,
                    subRc, tmp_file_exists, calls, pipCalls, raised >>

\* except subprocess.CalledProcessError as ex: error 5 or 6 by ex.returncode
ExceptCalledProcessError ==
    /\ pc = "il_except"
    /\ error_messages' = Append(error_messages,
                                ErrorPair(ExceptErrorInd(subRc), lib_names[1]))
    /\ pc' = "il_return"
    /\ UNCHANGED hostVars
    /\ UNCHANGED effects
    /\ UNCHANGED prefsFrame
    /\ UNCHANGED << inputs, depFrame, libLocals, probes, netResult, hasAccess,
                    subRc, tmp_file_exists, calls, pipCalls, raised >>

\* return error_messages
LibReturn ==
    /\ pc = "il_return"
    /\ pc' = "dep_check"
    /\ UNCHANGED hostVars
    /\ UNCHANGED effects
    /\ UNCHANGED prefsFrame
    /\ UNCHANGED << inputs, depFrame, libLocals, error_messages, probes,
                    netResult, hasAccess, subRc, tmp_file_exists, calls,
                    pipCalls, raised >>

----------------------------------------------------------------------------
\* unregister_from_failed_install, called once install_dependencies is over

installerRun == << inputs, depFrame, libLocals, pc, error_messages, probes, netResult,
                  hasAccess, subRc, tmp_file_exists, calls, pipCalls, raised, effects >>

\* unregister_from_failed_install without its test.
UnregisterFromFailedInstallAlways ==
    /\ pc \in { "done", "raised" }
    /\ Len(unreg_returned) < MaxUnregisterCalls
    /\ prefs_unregistered' = prefs_unregistered + 1
    /\ install_failed' = ErrorPrefsUnregistered
    /\ unreg_returned' = Append(unreg_returned, << install_failed, TRUE >>)
    /\ UNCHANGED hostVars
    /\ UNCHANGED installerRun

\* if hasattr(prefs_addon, "install_failed") and prefs_addon.install_failed:
\*     addon_error_prefs.unregister(); return True
\* return False
UnregisterFromFailedInstall ==
    /\ pc \in { "done", "raised" }
    /\ Len(unreg_returned) < MaxUnregisterCalls
    /\ IF install_failed # "absent" /\ install_failed = "true"
       THEN /\ prefs_unregistered' = prefs_unregistered + 1
            /\ install_failed' = ErrorPrefsUnregistered
            /\ unreg_returned' = Append(unreg_returned, << install_failed, TRUE >>)
       ELSE /\ unreg_returned' = Append(unreg_returned, << install_failed, FALSE >>)
            /\ UNCHANGED << install_failed, prefs_unregistered >>
    /\ UNCHANGED hostVars
    /\ UNCHANGED installerRun

-----------------------------------------------------------------------------
Next ==
    \/ DepCall \/ DepReturnZero \/ DepFail \/ DepNext
    \/ ImportCheck
    \/ NetDarwin \/ NetStart \/ NetProbe \/ NetExhausted
    \/ NetTest \/ AdminCheck \/ IsFile \/ Remove \/ Access \/ WriteProbe
    \/ Pip \/ RcZero \/ RcNonZero \/ ExceptCalledProcessError \/ LibReturn
    \/ UnregisterFromFailedInstall

Spec == Init /\ [][Next]_vars

-----------------------------------------------------------------------------
\* The settings: stampinfo/stampInfoSettings.py

\* The installer at rest, while the other parts of the add-on run.
InstallerIdle ==
    /\ platform = "win32"
    /\ dependencies_list = << >>
    /\ retries = 0
    /\ timeout = 0
    /\ tmp_file_exists = FALSE
    /\ pc = "dep_loop"
    /\ depIdx = 1
    /\ lib_names = << "", "" >>
    /\ pip_retries = 0
    /\ pip_timeout = 0
    /\ error_messages = << >>
    /\ probes = << >>
    /\ netResult = FALSE
    /\ hasAccess = FALSE
    /\ subRc = 0
    /\ calls = << >>
    /\ probed = {}
    /\ pipCalls = << >>
    /\ libResults = << >>
    /\ prefs_registered = 0
    /\ error_message = << >>
    /\ returned = << >>
    /\ raised = ""
    /\ effects = NoEffects
    /\ install_failed = "absent"
    /\ prefs_unregistered = 0
    /\ unreg_returned = << >>

MaxOtherHandlers == 1

HandlerCategs == { "render_init", "render_pre", "render_complete", "render_cancel" }

\* The add-on's handler of each list.
StampInfoHandler ==
    [render_init |-> "uas_stampinfo_renderInitHandler",
     render_pre |-> "uas_stampinfo_renderPreHandler",
     render_complete |-> "uas_stampinfo_renderCompleteHandler",
     render_cancel |-> "uas_stampinfo_renderCancelHandler"]

\* A handler of another add-on.
OtherHandler == "other_handler"

\* utils_handlers.removeAllHandlerOccurences: the list without the handler.
RemoveAllHandlerOccurences(handler, handlerCateg) ==
    SelectSeq(handlerCateg, LAMBDA h : h # handler)

\* utils_handlers.getHandlerByFunction: the handler if it is in the list, else None (<< >>).
GetHandlerByFunction(handler, handlerCateg) ==
    IF \E i \in 1..Len(handlerCateg) : handlerCateg[i] = handler
    THEN << handler >>
    ELSE << >>

clearRenderHandlers(hl) ==
    [c \in HandlerCategs |-> RemoveAllHandlerOccurences(StampInfoHandler[c], hl[c])]

registerRenderHandlersNoClear(hl) ==
    [c \in HandlerCategs |-> Append(hl[c], StampInfoHandler[c])]

registerRenderHandlers(hl) ==
    LET cleared == clearRenderHandlers(hl)
    IN  [c \in HandlerCategs |-> Append(cleared[c], StampInfoHandler[c])]

handlersRegistered(hl) ==
    << >> # GetHandlerByFunction(StampInfoHandler["render_init"], hl["render_init"])

\* self.get(key, default)
IdPropGet(p, key, default) == IF p[key] = << >> THEN default ELSE p[key][1]

get_stampInfoUsed(p) == IdPropGet(p, "stampInfoUsed", TRUE)

get_stampInfoRenderMode(p) == IdPropGet(p, "stampInfoRenderMode", 1)

\* The items of the EnumProperty, by number.
RenderModeItems == << "DIRECTTOCOMPOSITE", "SEPARATEOUTPUT", "USECOMPOSITINGNODES" >>
RenderModeNumbers == { 0, 1, 2 }

\* Reading settings.stampInfoRenderMode: the identifier of the number the getter returns.
stampInfoRenderMode(p) == RenderModeItems[get_stampInfoRenderMode(p) + 1]

\* Calls of stamper.clearInfoCompoNodes in set_stampInfoUsed.
set_stampInfoUsed_clearsOnlyOff(p) ==
    IF ~get_stampInfoUsed(p) /\ "USECOMPOSITINGNODES" # stampInfoRenderMode(p) THEN 1 ELSE 0

set_stampInfoUsed_clears(p) ==
    IF "USECOMPOSITINGNODES" # stampInfoRenderMode(p) THEN 1 ELSE 0

\* Calls of stamper.clearInfoCompoNodes in stampInfoUsed_StateChanged.
stampInfoUsed_StateChanged_clears(p) ==
    IF get_stampInfoUsed(p)
    THEN 0
    ELSE IF "USECOMPOSITINGNODES" # stampInfoRenderMode(p) THEN 1 ELSE 0

\* Calls of stamper.clearInfoCompoNodes in set_stampInfoRenderMode.
set_stampInfoRenderMode_clearsAlways(value) == 1

set_stampInfoRenderMode_clears(value) == IF 2 # value THEN 1 ELSE 0

\* The handler lists after set_stampInfoUsed.
set_stampInfoUsed_handlers(hl) == registerRenderHandlers(clearRenderHandlers(hl))

\* The handler lists after stampInfoUsed_StateChanged.
stampInfoUsed_StateChanged_handlers(p, hl) ==
    IF get_stampInfoUsed(p) THEN registerRenderHandlers(hl) ELSE clearRenderHandlers(hl)

InitSettings ==
    /\ InstallerIdle
    /\ props = NoProps
    /\ app_handlers \in [HandlerCategs -> SeqUpTo({OtherHandler}, MaxOtherHandlers)]
    /\ lastOp = << "none", "" >>
    /\ prevOp = << "none", "" >>
    /\ compoClears = 0
    /\ assignOnly = TRUE
    /\ FolderIdle
    /\ OperatorsIdle
    /\ RegistryIdle

\* What the settings leave alone.
nonSettingsVars == << installerVars, folderVars, opVars, regVars >>

\* An assignment to stampInfoUsed: the setter, then the update callback.
AssignStampInfoUsed(value, op) ==
    LET p1 == [props EXCEPT !.stampInfoUsed = << value >>]
        h1 == set_stampInfoUsed_handlers(app_handlers)
    IN  /\ props' = p1
        /\ app_handlers' = stampInfoUsed_StateChanged_handlers(p1, h1)
        /\ compoClears' = set_stampInfoUsed_clears(p1) + stampInfoUsed_StateChanged_clears(p1)
        /\ prevOp' = lastOp
        /\ lastOp' = << op, ToString(value) >>
        /\ UNCHANGED assignOnly
        /\ UNCHANGED nonSettingsVars

SetStampInfoUsed == \E value \in BOOLEAN : AssignStampInfoUsed(value, "stampInfoUsed")

ActivateStampInfo == \E activated \in BOOLEAN : AssignStampInfoUsed(activated, "activateStampInfo")

\* An assignment to stampInfoRenderMode: the setter (the property has no update callback).
SetStampInfoRenderMode ==
    \E value \in RenderModeNumbers :
        /\ compoClears' = set_stampInfoRenderMode_clears(value)
        /\ props' = [props EXCEPT !.stampInfoRenderMode = << value >>]
        /\ prevOp' = lastOp
        /\ lastOp' = << "stampInfoRenderMode", ToString(value) >>
        /\ UNCHANGED << app_handlers, assignOnly >>
        /\ UNCHANGED nonSettingsVars

\* A direct call of settings.registerRenderHandlers().
RegisterRenderHandlers ==
    /\ app_handlers' = registerRenderHandlers(app_handlers)
    /\ prevOp' = lastOp
    /\ lastOp' = << "registerRenderHandlers", "" >>
    /\ compoClears' = 0
    /\ assignOnly' = FALSE
    /\ UNCHANGED props
    /\ UNCHANGED nonSettingsVars

\* A direct call of settings.clearRenderHandlers().
ClearRenderHandlers ==
    /\ app_handlers' = clearRenderHandlers(app_handlers)
    /\ prevOp' = lastOp
    /\ lastOp' = << "clearRenderHandlers", "" >>
    /\ compoClears' = 0
    /\ assignOnly' = FALSE
    /\ UNCHANGED props
    /\ UNCHANGED nonSettingsVars

NextSettings ==
    \/ SetStampInfoUsed \/ ActivateStampInfo \/ SetStampInfoRenderMode
    \/ RegisterRenderHandlers \/ ClearRenderHandlers

SpecSettings == InitSettings /\ [][NextSettings]_vars

----------------------------------------------------------------------------
\* Helpers of the properties.

Range(f) == { f[i] : i \in DOMAIN f }

\* The error codes of a list of (message, code) pairs.
CodesOf(errs) == [ i \in DOMAIN errs |-> errs[i][2] ]

\* Position of the first library whose install_library call returned errors (0: none).
FirstFailed ==
    IF \E i \in DOMAIN libResults : libResults[i] # << >>
      THEN CHOOSE i \in DOMAIN libResults :
             /\ libResults[i] # << >>
             /\ \A j \in 1..(i - 1) : libResults[j] = << >>
      ELSE 0

----------------------------------------------------------------------------
\* C1: install_dependencies handles the libraries in list order and stops at the
\* first one whose install_library call returns a non-empty error list: it has
\* then returned, no later library was handed to install_library and no pip call
\* was made for one, the error preferences panel is registered, error_message
\* holds the message of the first pair of that list and the code of that pair
\* is the value returned.
C1_FirstErrorAborts ==
    /\ probed = 1..Cardinality(probed)
    /\ Len(libResults) <= Cardinality(probed)
    /\ \A i \in DOMAIN pipCalls :
         /\ pipCalls[i].dep \in probed
         /\ pipCalls[i].argv[9] = dependencies_list[pipCalls[i].dep][2]
         /\ \A j \in 1..(i - 1) : pipCalls[j].dep < pipCalls[i].dep
    /\ FirstFailed # 0 =>
         /\ pc = "done"
         /\ Len(libResults) = FirstFailed
         /\ probed = 1..FirstFailed
         /\ \A i \in DOMAIN pipCalls : pipCalls[i].dep <= FirstFailed
         /\ prefs_registered = 1
         /\ error_message = << libResults[FirstFailed][1][1] >>
         /\ returned = << libResults[FirstFailed][1][2] >>

\* C1 witness: the first of two libraries failed and the second was never visited.
C1_Witness ==
    /\ pc = "done"
    /\ Len(dependencies_list) = 2
    /\ FirstFailed = 1
    /\ probed = {1}
    /\ pipCalls # << >>

\* C2: when install_dependencies has returned, the value is 0 exactly if
\* install_library returned an empty list for every library of the list; then
\* the error panel is not registered and error_message is not written. Any
\* other returned value is strictly positive.
C2_ZeroIffAllEmpty ==
    pc = "done" =>
      /\ Len(returned) = 1
      /\ returned[1] = 0 <=>
           /\ Len(libResults) = Len(dependencies_list)
           /\ \A i \in DOMAIN libResults : libResults[i] = << >>
      /\ returned[1] = 0 => prefs_registered = 0 /\ error_message = << >>
      /\ returned[1] # 0 => returned[1] > 0

\* C2 witness: two libraries installed by pip, 0 returned.
C2_Witness ==
    /\ pc = "done"
    /\ returned = << 0 >>
    /\ Len(dependencies_list) = 2
    /\ Len(pipCalls) = 2

----------------------------------------------------------------------------
\* The last external call of the running (or last) install_library activation.
LastCall == calls[Len(calls)]

\* Positions of the subprocess.run calls in the trace of the activation.
PipEvents == { i \in DOMAIN calls : calls[i][1] = "pip" }

\* Loop position of the running (or last) install_library activation.
CurDep == Cardinality(probed)

\* install_library has returned to install_dependencies.
LibReturned == pc = "dep_check"

\* C3: an install_library activation runs pip at most once, exactly once when
\* it reaches the pip step, with the arguments
\*   <python> -m pip --default-timeout <T> --retries <R> install <package> --ignore-installed
\* and the exit code decides the list it returns: exit code 0 and module
\* importable: empty list; exit code 0 and module not importable: the single
\* pair of code 3; exit code not 0: a non-empty list of (message, code) pairs.
C3_PipOnceExitCodeDecides ==
    /\ Cardinality(PipEvents) <= 1
    /\ Cardinality({ i \in DOMAIN pipCalls : pipCalls[i].dep = CurDep })
         = Cardinality(PipEvents)
    /\ pc \in {"il_rc", "il_except", "il_return", "dep_check"} =>
         (Cardinality(PipEvents) = 1 <=>
            /\ << "is_admin", "True" >> \in Range(calls) \/ << "write", "ok" >> \in Range(calls)
            /\ << "internet_on", "True" >> \in Range(calls))
    /\ PipEvents # {} =>
         pipCalls[Len(pipCalls)].argv =
           << pyExeFile, "-m", "pip", "--default-timeout", ToString(pip_timeout),
              "--retries", ToString(pip_retries), "install",
              dependencies_list[CurDep][2], "--ignore-installed" >>
    /\ (LibReturned /\ << "pip", "exit" >> \in Range(calls)) =>
         /\ subRc = 0 => LastCall[1] = "import"
         /\ (subRc = 0 /\ LastCall = << "import", "ok" >>) => error_messages = << >>
         /\ (subRc = 0 /\ LastCall = << "import", "missing" >>) =>
              CodesOf(error_messages) = << 3 >>
         /\ subRc # 0 =>
              /\ error_messages # << >>
              /\ \A i \in DOMAIN error_messages :
                   Len(error_messages[i]) = 2 /\ error_messages[i][2] > 0

\* C3 witness: pip exited with a non-zero code and install_library has returned.
C3_Witness ==
    /\ LibReturned
    /\ << "pip", "exit" >> \in Range(calls)
    /\ subRc # 0
    /\ Len(pipCalls) = 2

----------------------------------------------------------------------------
\* The codes of the error taxonomy.
TaxonomyCodes == {1, 2, 3, 4, 5, 6, 21, 22, 23}

\* s starts with "Err.<code>:"
HasErrPrefix(s, code) ==
    LET p == "Err." \o ToString(code) \o ":"
    IN  Len(s) >= Len(p) /\ SubSeq(s, 1, Len(p)) = p

WellFormedPair(pair) ==
    /\ Len(pair) = 2
    /\ pair[2] \in TaxonomyCodes
    /\ HasErrPrefix(pair[1], pair[2])

\* C4: every pair in a list of install_library and every non-zero value returned
\* by install_dependencies carries a code of the taxonomy, every message starts
\* with "Err.<code>:", and each failure kind gives its own code: no internet 1,
\* stale marker not deletable 21, write probe failed with the directory
\* reported non-writable 22, reported writable 23, installed but not
\* importable 3, pip exit code not 0: 4.
C4_FixedCodes ==
    /\ \A i \in DOMAIN error_messages : WellFormedPair(error_messages[i])
    /\ \A i \in DOMAIN libResults :
         \A j \in DOMAIN libResults[i] : WellFormedPair(libResults[i][j])
    /\ (pc = "done" /\ returned[1] # 0) => returned[1] \in TaxonomyCodes
    /\ pc \in {"il_return", "dep_check"} =>
         /\ LastCall = << "internet_on", "False" >> => CodesOf(error_messages) = << 1 >>
         /\ LastCall = << "remove", "fail" >> => CodesOf(error_messages) = << 21 >>
         /\ (LastCall[1] = "write" /\ LastCall[2] # "ok"
               /\ calls[Len(calls) - 1] = << "access", "False" >>) =>
              CodesOf(error_messages) = << 22 >>
         /\ (LastCall[1] = "write" /\ LastCall[2] # "ok"
               /\ calls[Len(calls) - 1] = << "access", "True" >>) =>
              CodesOf(error_messages) = << 23 >>
         /\ (LastCall = << "import", "missing" >> /\ Len(calls) > 1) =>
              CodesOf(error_messages) = << 3 >>
         /\ LastCall = << "pip", "exit" >> => error_messages[1][2] = 4
         /\ LastCall \in { << "import", "ok" >>, << "write", "ok" >> }
              => error_messages = << >>

\* C4 witness: the write probe failed although os.access reported the directory
\* writable, and install_library returns code 23.
C4_Witness ==
    /\ pc = "il_return"
    /\ LastCall[1] = "write"
    /\ hasAccess
    /\ CodesOf(error_messages) = << 23 >>

----------------------------------------------------------------------------
\* The outcome of `call` in the trace of the activation (default: not called).
CallOutcome(call, default) ==
    IF \E i \in DOMAIN calls : calls[i][1] = call
      THEN calls[CHOOSE i \in DOMAIN calls : calls[i][1] = call][2]
      ELSE default

\* The outcomes the activation has met, as an element of LibOutcomes.
OutcomeOfCalls ==
    [ imp1   |-> calls[1][2],
      net    |-> CallOutcome("internet_on", "True"),
      admin  |-> CallOutcome("is_admin", "True") = "True",
      isfile |-> CallOutcome("isfile", "False") = "True",
      remove |-> CallOutcome("remove", "ok"),
      access |-> CallOutcome("access", "True") = "True",
      write  |-> CallOutcome("write", "ok"),
      pip    |-> CallOutcome("pip", "exit"),
      rc     |-> subRc,
      imp2   |-> IF Len(calls) > 1 /\ LastCall[1] = "import" THEN LastCall[2] ELSE "ok" ]

\* The step-by-step run of install_library gives what InstallLibraryResult computes.
StepsMatchResult ==
    /\ LibReturned =>
         InstallLibraryResult(OutcomeOfCalls) = LibReturns(CodesOf(error_messages))
    /\ pc = "raised" => InstallLibraryResult(OutcomeOfCalls).raised

LibCodes == {1, 3, 4, 6, 21, 22, 23}
DepCodes == {1, 3, 4, 21, 22, 23}

\* The codes install_library returns, over all outcomes.
ProducedLibCodes ==
    UNION { Range(InstallLibraryResult(o).codes) : o \in LibOutcomes }

\* The values install_dependencies returns for one library, over all outcomes.
ProducedDepValues ==
    { InstallDependenciesResult(<< o >>).value :
        o \in { x \in LibOutcomes : ~ InstallDependenciesResult(<< x >>).raised } }

\* C5 as stated: for a library of the list, every code of 1..6, 21..23 is
\* returned by install_library in some outcome, and by install_dependencies in
\* some outcome.
C5_AllCodesProduced ==
    dependencies_list # << >> =>
      /\ TaxonomyCodes \subseteq ProducedLibCodes
      /\ TaxonomyCodes \subseteq ProducedDepValues

\* C5 amended: install_library returns a pair of code c in some outcome for
\* each c of 1, 3, 4, 6, 21, 22, 23 and install_dependencies returns c in some
\* outcome for each c of 1, 3, 4, 21, 22, 23. No outcome gives code 2 or 5, and
\* install_dependencies never returns 6, whose pair always follows the pair of
\* code 4 in the same list.
C5_ProducedCodes ==
    /\ ProducedLibCodes = LibCodes
    /\ ProducedDepValues = DepCodes \cup {0}
    /\ StepsMatchResult
    /\ Range(CodesOf(error_messages)) \subseteq LibCodes
    /\ \A i \in DOMAIN error_messages :
         error_messages[i][2] = 6 => (i > 1 /\ error_messages[i - 1][2] = 4)
    /\ pc = "done" => returned[1] \in DepCodes \cup {0}

\* C5 witness: install_library returned the pairs of codes 4 and 6, and
\* install_dependencies returned 4.
C5_Witness ==
    /\ pc = "done"
    /\ libResults # << >>
    /\ CodesOf(libResults[Len(libResults)]) = << 4, 6 >>
    /\ returned = << 4 >>

----------------------------------------------------------------------------
\* C6 as stated: a failure raised by the pip subprocess invocation never leaves
\* install_library; it is caught and gives an error pair, of code 5 when the
\* raised error reports return code 0 and of code 6 otherwise.
C6_PipFailureCaught ==
    /\ << "pip", "OSError" >> \in Range(calls) => pc # "raised"
    /\ (pc = "il_return" /\ << "pip", "exit" >> \in Range(calls) /\ subRc # 0) =>
         error_messages[Len(error_messages)][2] = 6
    /\ (LibReturned /\ << "pip", "OSError" >> \in Range(calls)) =>
         /\ error_messages # << >>
         /\ error_messages[Len(error_messages)][2] \in {5, 6}

----------------------------------------------------------------------------
\* The calls that check the write permission on the library directory.
PermissionCalls == {"is_admin", "isfile", "remove", "access", "write"}

\* Place of a call in the text of install_library.
CallRank(call) ==
    CASE call = "import"      -> 1
      [] call = "internet_on" -> 2
      [] call = "is_admin"    -> 3
      [] call = "isfile"      -> 4
      [] call = "remove"      -> 5
      [] call = "access"      -> 6
      [] call = "write"       -> 7
      [] call = "pip"         -> 8

\* C7 as stated: the permission checks come before the network probe.
C7_PermissionBeforeNetwork ==
    \A i \in DOMAIN calls :
      calls[i][1] = "internet_on" =>
        \E j \in 1..(i - 1) : calls[j][1] \in PermissionCalls

\* C7 amended: install_library probes the network first, then checks the write
\* permission (non-admin only), then runs pip. Every permission check and every
\* pip call follows an internet_on call that returned True; when internet_on
\* returns False the list is the single pair of code 1, whatever the state of
\* the library directory, and no permission check is made; a permission error
\* (21, 22, 23) is only reported after a successful probe.
C7_NetworkBeforePermission ==
    /\ \A i \in DOMAIN calls :
         calls[i][1] \in PermissionCalls \cup {"pip"} =>
           \E j \in 1..(i - 1) : calls[j] = << "internet_on", "True" >>
    /\ \A i \in DOMAIN calls : \A j \in DOMAIN calls :
         (i < j /\ calls[i][1] # "import") =>
           (calls[j][1] = "import" \/ CallRank(calls[i][1]) < CallRank(calls[j][1]))
    /\ << "internet_on", "False" >> \in Range(calls) =>
         /\ LastCall = << "internet_on", "False" >>
         /\ \A i \in DOMAIN calls : calls[i][1] \notin PermissionCalls
         /\ pc \in {"il_return", "dep_check", "done"} =>
              CodesOf(error_messages) = << 1 >>
    /\ Range(CodesOf(error_messages)) \cap {21, 22, 23} # {} =>
         << "internet_on", "True" >> \in Range(calls)

\* C7 witness: the network is unreachable while a stale marker file sits in the
\* library directory; install_library returns code 1 and has checked nothing else.
C7_Witness ==
    /\ pc = "il_return"
    /\ platform # "darwin"
    /\ tmp_file_exists
    /\ calls = << << "import", "missing" >>, << "internet_on", "False" >> >>
    /\ CodesOf(error_messages) = << 1 >>

----------------------------------------------------------------------------
\* The calls made before position i of the trace.
CallsBefore(i) == { calls[j] : j \in 1..(i - 1) }

\* C8: pip is run only after the module was found missing, internet_on returned
\* True and either is_admin returned True or the write probe succeeded; after
\* an error 1, 21, 22 or 23 install_library returns without running pip; when
\* is_admin returns True the marker file is neither looked for, deleted nor
\* written.
C8_PipGuard ==
    /\ \A i \in PipEvents :
         /\ calls[1] = << "import", "missing" >>
         /\ << "internet_on", "True" >> \in CallsBefore(i)
         /\ \/ << "is_admin", "True" >> \in CallsBefore(i)
            \/ << "write", "ok" >> \in CallsBefore(i)
    /\ (error_messages # << >> /\ error_messages[1][2] \in {1, 21, 22, 23}) =>
         /\ PipEvents = {}
         /\ Len(error_messages) = 1
         /\ pc \in {"il_return", "dep_check", "done"}
    /\ << "is_admin", "True" >> \in Range(calls) =>
         \A i \in DOMAIN calls : calls[i][1] \notin {"isfile", "remove", "access", "write"}

\* C8 witness: not admin, the write probe succeeded and pip has run.
C8_Witness ==
    /\ pc = "il_rc"
    /\ << "is_admin", "False" >> \in Range(calls)
    /\ << "write", "ok" >> \in Range(calls)
    /\ PipEvents # {}

----------------------------------------------------------------------------
\* C9: off darwin, internet_on probes with the timeouts 1, 5, 10, 15 in that
\* order, returns True at the first probe that succeeds and False after the
\* fourth probe failed with URLError: never more than four probes, never a
\* timeout below an earlier one. On darwin it returns True without a probe.
C9_TimeoutLadder ==
    /\ Len(probes) <= 4
    /\ \A i \in DOMAIN probes : probes[i][1] = << 1, 5, 10, 15 >>[i]
    /\ \A i \in DOMAIN probes : \A j \in DOMAIN probes :
         i < j => probes[i][1] <= probes[j][1]
    /\ \A i \in 1..(Len(probes) - 1) : probes[i][2] = "URLError"
    /\ platform = "darwin" => probes = << >>
    /\ pc = "net_probe" =>
         /\ \A i \in DOMAIN probes : probes[i][2] = "URLError"
         /\ Len(probes) = 4 => (ENABLED NetExhausted /\ ~ ENABLED NetProbe)
    /\ pc = "il_net_test" =>
         IF platform = "darwin"
           THEN netResult
           ELSE /\ netResult <=> (probes # << >> /\ probes[Len(probes)][2] = "ok")
                /\ ~ netResult <=>
                     (Len(probes) = 4 /\ \A i \in DOMAIN probes : probes[i][2] = "URLError")

\* C9 witness: four probes failed with URLError and internet_on returned False.
C9_Witness ==
    /\ pc = "il_net_test"
    /\ ~ netResult
    /\ Len(probes) = 4

----------------------------------------------------------------------------
\* Decimal numerals of the strictly positive timeouts.
PositiveNumerals == { ToString(n) : n \in 1..100 }

\* C10: install_library receives the retries and timeout of install_dependencies
\* unchanged, for every library; pip gets --retries <retries> and
\* --default-timeout <timeout> when timeout is positive, 100 when it is not, so
\* the --default-timeout value is always strictly positive.
C10_CallerTimeoutRetries ==
    /\ pc \notin {"dep_loop", "done"} =>
         /\ pip_retries = retries
         /\ PipEvents = {} => pip_timeout = timeout
    /\ \A i \in DOMAIN pipCalls :
         /\ pipCalls[i].argv[6] = "--retries"
         /\ pipCalls[i].argv[7] = ToString(retries)
         /\ pipCalls[i].argv[4] = "--default-timeout"
         /\ pipCalls[i].argv[5] = ToString(IF timeout > 0 THEN timeout ELSE 100)
         /\ pipCalls[i].argv[5] \in PositiveNumerals

\* C10 witness: pip was run for two libraries of a call with timeout 0.
C10_Witness ==
    /\ timeout = 0
    /\ Len(pipCalls) = 2
    /\ pipCalls[2].argv[5] = "100"

\* The calls of the running activation, by name.
CallNames == { calls[i][1] : i \in DOMAIN calls }

\* The deletion of the marker file failed in the running (or last) activation.
RemoveFailed == << "remove", "fail" >> \in Range(calls)

\* C13: without admin rights a marker file StampInfo_Tmp.txt found in the library
\* directory is deleted before the write probe: the probe is attempted only when no
\* marker is there (none was found, or os.remove succeeded). When the deletion fails,
\* install_library returns the single pair of code 21, with no os.access test, no write
\* probe and no pip run, and the marker stays.
C13_MarkerDeletedBeforeProbe ==
    /\ pc \in { "il_access", "il_write" } => ~tmp_file_exists
    /\ \A i \in DOMAIN calls :
          calls[i][1] = "remove" =>
              /\ << "is_admin", "False" >> \in CallsBefore(i)
              /\ calls[i - 1] = << "isfile", "True" >>
    /\ \A i \in DOMAIN calls :
          (calls[i][1] = "write" /\ << "isfile", "True" >> \in CallsBefore(i)) =>
              << "remove", "ok" >> \in CallsBefore(i)
    /\ RemoveFailed =>
          /\ LastCall = << "remove", "fail" >>
          /\ CallNames \cap { "access", "write", "pip" } = {}
          /\ CodesOf(error_messages) = << 21 >>
          /\ tmp_file_exists
          /\ pc \in { "il_return", "dep_check", "done" }
          /\ pc = "done" => /\ CodesOf(libResults[Len(libResults)]) = << 21 >>
                            /\ returned = << 21 >>

\* The second library finds the marker that the first library's write probe left, and
\* cannot delete it.
C13_Witness ==
    /\ pc = "done"
    /\ RemoveFailed
    /\ CurDep = 2
    /\ returned = << 21 >>

\* C21: without admin rights the write probe alone decides whether the installation goes
\* on: when the marker is written, pip is the next step, also when os.access said the
\* directory is not writable; when the write fails, install_library returns the single
\* pair of code 22 if os.access said not writable and of code 23 if it said writable,
\* and pip is not run.
C21_WriteProbeDecides ==
    /\ \A i \in DOMAIN calls :
          calls[i][1] = "write" =>
              /\ << "is_admin", "False" >> \in CallsBefore(i)
              /\ calls[i - 1][1] = "access"
              /\ calls[i][2] = "ok" =>
                    IF i = Len(calls)
                    THEN pc = "il_pip" /\ error_messages = << >>
                    ELSE calls[i + 1][1] = "pip"
              /\ calls[i][2] # "ok" =>
                    /\ i = Len(calls)
                    /\ "pip" \notin CallNames
                    /\ pc \in { "il_return", "dep_check", "done" }
                    /\ CodesOf(error_messages)
                           = << IF calls[i - 1][2] = "False" THEN 22 ELSE 23 >>
    /\ \A i \in PipEvents :
          << "is_admin", "False" >> \in CallsBefore(i) => calls[i - 1] = << "write", "ok" >>

\* pip was run after os.access said not writable and the marker was written all the same.
C21_Witness ==
    /\ "pip" \in CallNames
    /\ << "access", "False" >> \in Range(calls)
    /\ << "write", "ok" >> \in Range(calls)

\* C22: for every outcome the list install_library returns holds at most one
\* (message, error_code) pair.
C22_AtMostOnePair ==
    pc \in { "il_return", "dep_check", "done" } => Len(error_messages) <= 1

\* C23: when the module can already be imported, install_library returns the empty list
\* and does nothing else: the import check is its only external call (no network probe,
\* no admin check, no marker deleted or written, no pip); so install_dependencies on
\* libraries that are all importable makes no external call at all, registers no error
\* panel, writes no message and returns 0.
C23_ImportableNoEffect ==
    /\ (calls # << >> /\ calls[1] = << "import", "ok" >>) =>
          /\ Len(calls) = 1
          /\ error_messages = << >>
          /\ pc # "raised"
    /\ effects.importable =>
          /\ ~ effects.acted
          /\ pipCalls = << >>
          /\ \A i \in DOMAIN libResults : libResults[i] = << >>
          /\ prefs_registered = 0
          /\ error_message = << >>
          /\ install_failed # ErrorPrefsRegistered
          /\ pc = "done" => returned = << 0 >>

\* install_dependencies is over on two libraries that were both importable.
C23_Witness ==
    /\ pc = "done"
    /\ effects.importable
    /\ Len(dependencies_list) = 2
    /\ Len(libResults) = 2
    /\ calls = << << "import", "ok" >> >>
    /\ returned = << 0 >>

\* C24: whenever install_library returns, with success or with an error, no marker file
\* written by its write probe is left in the library directory.
C24_MarkerIsTemporary ==
    (LibReturned /\ "write" \in CallNames) => ~ tmp_file_exists

\* The calls of unregister_from_failed_install that returned True.
UnregisteredCalls == { i \in DOMAIN unreg_returned : unreg_returned[i][2] }

\* C25: unregister_from_failed_install unregisters the error preferences and returns True
\* exactly when the add-on preferences have an install_failed attribute that is true;
\* otherwise it returns False and unregisters nothing. After an install_dependencies that
\* failed, and so registered the error preferences, its call returns True and the error
\* preferences are unregistered exactly once.
C25_UnregistersIffInstallFailed ==
    /\ \A i \in DOMAIN unreg_returned :
          unreg_returned[i][2] = (unreg_returned[i][1] = "true")
    /\ prefs_unregistered = Cardinality(UnregisteredCalls)
    /\ unreg_returned # << >> => pc \in { "done", "raised" }
    /\ (prefs_registered = 1 /\ Len(unreg_returned) = 1) =>
          /\ unreg_returned[1] = << "true", TRUE >>
          /\ prefs_unregistered = 1
    /\ (prefs_registered = 0 /\ unreg_returned # << >>) =>
          /\ unreg_returned[1][2] = FALSE
          /\ prefs_unregistered = 0

\* A failed install_dependencies, then a call that unregistered and a call that did not.
C25_Witness ==
    /\ prefs_registered = 1
    /\ returned # << >> /\ returned[1] # 0
    /\ unreg_returned = << << "true", TRUE >>, << "absent", FALSE >> >>
    /\ prefs_unregistered = 1

-----------------------------------------------------------------------------
\* Properties of the settings (SpecSettings).

\* Occurrences of a handler in a list.
Count(handler, handlerCateg) ==
    Cardinality({ i \in 1..Len(handlerCateg) : handlerCateg[i] = handler })

\* The add-on's handler is n times on each of the four lists.
OnAllLists(n) ==
    \A c \in HandlerCategs : Count(StampInfoHandler[c], app_handlers[c]) = n

\* C11: each of the four render handler lists holds the add-on's handler at most once:
\* exactly once on all four after registerRenderHandlers (also when it is called again),
\* not at all on any after clearRenderHandlers, and handlersRegistered() is True exactly
\* when the handler is once on all four lists.
C11_HandlersAtMostOnce ==
    /\ \A c \in HandlerCategs : Count(StampInfoHandler[c], app_handlers[c]) <= 1
    /\ lastOp[1] = "registerRenderHandlers" => OnAllLists(1)
    /\ lastOp[1] = "clearRenderHandlers" => OnAllLists(0)
    /\ OnAllLists(1) \/ OnAllLists(0)
    /\ handlersRegistered(app_handlers) <=> OnAllLists(1)

\* registerRenderHandlers called twice in a row, on lists that hold another add-on's handler.
C11_Witness ==
    /\ lastOp[1] = "registerRenderHandlers"
    /\ prevOp[1] = "registerRenderHandlers"
    /\ handlersRegistered(app_handlers)
    /\ \A c \in HandlerCategs : Len(app_handlers[c]) = 2

\* The last operation assigned stampInfoUsed (directly or through activateStampInfo).
AssignedStampInfoUsed == lastOp[1] \in { "stampInfoUsed", "activateStampInfo" }

\* C17: before stampInfoUsed was ever assigned, reading it yields the declared default
\* False; after an assignment of v, reading it yields v.
C17_DefaultReadsFalse ==
    /\ props.stampInfoUsed = << >> => get_stampInfoUsed(props) = FALSE
    /\ AssignedStampInfoUsed => ToString(get_stampInfoUsed(props)) = lastOp[2]

\* After an assignment of v, reading stampInfoUsed yields v, until the next assignment.
ReadsAssignedValue ==
    /\ AssignedStampInfoUsed => ToString(get_stampInfoUsed(props)) = lastOp[2]
    /\ props.stampInfoUsed # << >> => get_stampInfoUsed(props) = props.stampInfoUsed[1]

\* C18: in every state reached from the initial state by assignments to stampInfoUsed
\* alone, handlersRegistered() is True if and only if stampInfoUsed reads True.
C18_RegisteredIffUsed ==
    assignOnly => (handlersRegistered(app_handlers) <=> get_stampInfoUsed(props))

\* Once stampInfoUsed was assigned, handlersRegistered() is True if and only if it reads True.
RegisteredIffUsedOnceAssigned ==
    (assignOnly /\ props.stampInfoUsed # << >>) =>
        (handlersRegistered(app_handlers) <=> get_stampInfoUsed(props))

\* C19: an assignment to stampInfoRenderMode stores the value (a read returns it; a read
\* before any assignment returns 1, SEPARATEOUTPUT) and clears the info compositing nodes
\* if and only if the value is not 2 (USECOMPOSITINGNODES).
C19_RenderModeStoredAndCleared ==
    /\ props.stampInfoRenderMode = << >> =>
          /\ get_stampInfoRenderMode(props) = 1
          /\ stampInfoRenderMode(props) = "SEPARATEOUTPUT"
    /\ props.stampInfoRenderMode # << >> =>
          get_stampInfoRenderMode(props) = props.stampInfoRenderMode[1]
    /\ lastOp[1] = "stampInfoRenderMode" =>
          /\ ToString(get_stampInfoRenderMode(props)) = lastOp[2]
          /\ compoClears = (IF lastOp[2] = "2" THEN 0 ELSE 1)
    /\ (prevOp[1] = "stampInfoRenderMode" /\ lastOp[1] # "stampInfoRenderMode") =>
          ToString(get_stampInfoRenderMode(props)) = prevOp[2]

\* USECOMPOSITINGNODES assigned after SEPARATEOUTPUT: stored, and nothing cleared.
C19_Witness ==
    /\ prevOp = << "stampInfoRenderMode", "1" >>
    /\ lastOp = << "stampInfoRenderMode", "2" >>
    /\ stampInfoRenderMode(props) = "USECOMPOSITINGNODES"
    /\ compoClears = 0

\* C20 as stated: an assignment to stampInfoUsed clears the info compositing nodes only
\* when False is assigned and the render mode is not USECOMPOSITINGNODES.
C20_ClearsOnlyWhenTurnedOff ==
    (AssignedStampInfoUsed /\ compoClears > 0) =>
        (lastOp[2] = "FALSE" /\ stampInfoRenderMode(props) # "USECOMPOSITINGNODES")

\* C20: an assignment to stampInfoUsed clears the info compositing nodes whenever the
\* render mode is not USECOMPOSITINGNODES, whatever the value: once when True is assigned
\* (in the setter), twice when False is assigned (in the setter and in the update
\* callback); while the render mode is USECOMPOSITINGNODES no assignment clears them.
C20_ClearsUnlessCompositingMode ==
    AssignedStampInfoUsed =>
        compoClears = IF stampInfoRenderMode(props) = "USECOMPOSITINGNODES"
                      THEN 0
                      ELSE IF lastOp[2] = "TRUE" THEN 1 ELSE 2

\* True assigned in the mode SEPARATEOUTPUT: the nodes were cleared once.
C20_Witness ==
    /\ lastOp = << "stampInfoUsed", "TRUE" >>
    /\ stampInfoRenderMode(props) = "SEPARATEOUTPUT"
    /\ compoClears = 1

-----------------------------------------------------------------------------
\* delete_folder: stampinfo/utils/utils_os.py

MaxEntries == 3

\* What an entry of the directory can be.
EntryKinds == { "file", "dir", "locked" }

\* os.remove deletes a file; on a directory or a locked file it raises.
OsRemoveSucceeds(kind) == kind = "file"

\* os.rmdir deletes an empty directory the system lets go; otherwise it raises.
OsRmdirSucceeds(remaining, denied) == remaining = {} /\ ~denied

InitFolder ==
    /\ InstallerIdle
    /\ SettingsIdle
    /\ OperatorsIdle
    /\ RegistryIdle
    /\ dir_path_kind \in { "missing", "dir", "file" }
    /\ files_in_directory \in SeqUpTo(EntryKinds, MaxEntries)
    /\ dir_path_kind # "dir" => files_in_directory = << >>
    /\ present = 1..Len(files_in_directory)
    /\ dir_exists = (dir_path_kind # "missing")
    /\ rmdir_denied \in BOOLEAN
    /\ dir_path_kind # "dir" => rmdir_denied = FALSE
    /\ df_pc = "call"
    /\ df_i = 1

\* What delete_folder leaves alone.
nonFolderVars == << installerVars, settingsVars, opVars, regVars >>

folderInputs == << dir_path_kind, files_in_directory, rmdir_denied >>

\* os.path.exists(dir_path) is False: nothing to do.
DfMissing ==
    /\ df_pc = "call"
    /\ ~dir_exists
    /\ df_pc' = "returned"
    /\ UNCHANGED << folderInputs, present, dir_exists, df_i >>
    /\ UNCHANGED nonFolderVars

\* os.listdir(dir_path) of a directory.
DfListdir ==
    /\ df_pc = "call"
    /\ dir_exists
    /\ dir_path_kind = "dir"
    /\ df_pc' = "loop"
    /\ df_i' = 1
    /\ UNCHANGED << folderInputs, present, dir_exists >>
    /\ UNCHANGED nonFolderVars

\* os.listdir(dir_path) of a path that exists and is no directory raises; nothing catches it.
DfListdirRaises ==
    /\ df_pc = "call"
    /\ dir_exists
    /\ dir_path_kind = "file"
    /\ df_pc' = "raised"
    /\ UNCHANGED << folderInputs, present, dir_exists, df_i >>
    /\ UNCHANGED nonFolderVars

\* One turn of the loop with the except clause removed.
DfRemoveUncaught ==
    /\ df_pc = "loop"
    /\ df_i <= Len(files_in_directory)
    /\ IF OsRemoveSucceeds(files_in_directory[df_i])
       THEN /\ present' = present \ { df_i }
            /\ df_i' = df_i + 1
            /\ df_pc' = "loop"
       ELSE /\ df_pc' = "raised"
            /\ UNCHANGED << present, df_i >>
    /\ UNCHANGED << folderInputs, dir_exists >>
    /\ UNCHANGED nonFolderVars

\* One turn of the loop: os.remove(path_to_file); an exception is caught and printed.
DfRemove ==
    /\ df_pc = "loop"
    /\ df_i <= Len(files_in_directory)
    /\ present' = IF OsRemoveSucceeds(files_in_directory[df_i])
                  THEN present \ { df_i }
                  ELSE present
    /\ df_i' = df_i + 1
    /\ UNCHANGED << folderInputs, dir_exists, df_pc >>
    /\ UNCHANGED nonFolderVars

\* After the loop: os.rmdir(dir_path); an exception is caught and printed.
DfRmdir ==
    /\ df_pc = "loop"
    /\ df_i > Len(files_in_directory)
    /\ dir_exists' = ~OsRmdirSucceeds(present, rmdir_denied)
    /\ df_pc' = "returned"
    /\ UNCHANGED << folderInputs, present, df_i >>
    /\ UNCHANGED nonFolderVars

NextFolder == DfMissing \/ DfListdir \/ DfListdirRaises \/ DfRemove \/ DfRmdir

SpecFolder == InitFolder /\ [][NextFolder]_vars

\* C12 as stated: after delete_folder returned for an existing directory, neither the
\* directory nor any entry that was in it exists, whatever the entries are.
C12_DirectoryAndContentsGone ==
    (df_pc = "returned" /\ dir_path_kind = "dir") => (~dir_exists /\ present = {})

\* C12: delete_folder deletes the entries os.remove can delete and leaves the others
\* (sub-directories, locked files); it deletes the directory exactly when no entry is left
\* and the system lets the directory go; for a path that does not exist it changes
\* nothing; for a directory or a missing path no exception leaves it.
C12_DeletesWhatItCan ==
    /\ (df_pc = "returned" /\ dir_path_kind = "dir") =>
          /\ present = { i \in 1..Len(files_in_directory) : files_in_directory[i] # "file" }
          /\ dir_exists <=> (present # {} \/ rmdir_denied)
    /\ (df_pc = "returned" /\ dir_path_kind = "missing") => (~dir_exists /\ present = {})
    /\ df_pc = "raised" => dir_path_kind = "file"
    /\ dir_path_kind = "file" => df_pc \in { "call", "raised" }

\* delete_folder returned for a directory holding a file, a sub-directory and a locked file.
C12_Witness ==
    /\ df_pc = "returned"
    /\ dir_path_kind = "dir"
    /\ { files_in_directory[i] : i \in 1..Len(files_in_directory) } = EntryKinds
    /\ Cardinality(present) = 2
    /\ dir_exists

-----------------------------------------------------------------------------
\* The operators of stampinfo/utils/utils_ui.py and open_folder of utils_os.py

MaxDepth == 3

UiPlatforms == { "win32", "darwin", "linux" }

\* Names of the directories of a path.
DirNames == { "renders", "shot" }

UrlPool == { "https://github.com/ubisoft/stampinfo", "  https://github.com/ubisoft/stampinfo " }

\* str.strip(): without the blanks at both ends.
RECURSIVE Strip(_)
Strip(s) ==
    IF Len(s) > 0 /\ SubSeq(s, 1, 1) = " "
    THEN Strip(SubSeq(s, 2, Len(s)))
    ELSE IF Len(s) > 0 /\ SubSeq(s, Len(s), Len(s)) = " "
         THEN Strip(SubSeq(s, 1, Len(s) - 1))
         ELSE s

\* str.split("\n"): the lines of a message.
RECURSIVE SplitLines(_, _)
SplitLines(s, line) ==
    IF Len(s) = 0
    THEN << line >>
    ELSE IF SubSeq(s, 1, 1) = "\n"
         THEN << line >> \o SplitLines(SubSeq(s, 2, Len(s)), "")
         ELSE SplitLines(SubSeq(s, 2, Len(s)), line \o SubSeq(s, 1, 1))

\* str(Path(s)) on Windows, for a string written with "/": separators become "\",
\* repeated and trailing separators are dropped.
RECURSIVE WindowsPathStr(_)
WindowsPathStr(s) ==
    IF Len(s) = 0
    THEN ""
    ELSE LET c == SubSeq(s, 1, 1)
             rest == SubSeq(s, 2, Len(s))
         IN  IF c = "/"
             THEN IF Len(rest) = 0 \/ SubSeq(rest, 1, 1) = "/"
                  THEN WindowsPathStr(rest)
                  ELSE "\\" \o WindowsPathStr(rest)
             ELSE c \o WindowsPathStr(rest)

\* The separator and the root of the paths of a platform.
Sep(plat) == IF plat = "win32" THEN "\\" ELSE "/"
Root(plat) == IF plat = "win32" THEN "C:\\" ELSE "/"

RECURSIVE JoinNames(_, _)
JoinNames(names, sep) ==
    IF names = << >> THEN "" ELSE sep \o Head(names) \o JoinNames(Tail(names), sep)

\* The text of the absolute path with these names.
PathStr(plat, names) ==
    IF names = << >>
    THEN Root(plat)
    ELSE (IF plat = "win32" THEN "C:" ELSE "") \o JoinNames(names, Sep(plat))

\* Path(p).parent; the parent of the root is the root.
Parent(names) == IF names = << >> THEN << >> ELSE SubSeq(names, 1, Len(names) - 1)

\* head of os.path.split: the path without its last name, or the whole of it when it
\* ends with a separator.
SplitHead(names, trailing_sep) == IF trailing_sep THEN names ELSE Parent(names)

\* Path(head + "\\"): on Windows the directory head; elsewhere "\" is no separator and
\* belongs to the last name.
PathOfHeadBackslash(plat, head) ==
    IF plat = "win32"
    THEN head
    ELSE IF head = << >>
         THEN << "\\" >>
         ELSE Append(Parent(head), head[Len(head)] \o "\\")

\* Path(p).exists()
Exists(names) ==
    /\ Len(names) <= exist_depth
    /\ names = SubSeq(op_path, 1, Len(names))

\* The paths invoke tries, in its order.
Candidates(plat, head) ==
    LET p == PathOfHeadBackslash(plat, head)
    IN  << p, Parent(p), Parent(Parent(p)) >>

\* Position of the first path that exists (0: none).
FirstExisting(cands) ==
    IF \E k \in 1..Len(cands) : Exists(cands[k])
    THEN CHOOSE k \in 1..Len(cands) : Exists(cands[k]) /\ \A j \in 1..(k - 1) : ~Exists(cands[j])
    ELSE 0

InitOperators ==
    /\ InstallerIdle
    /\ SettingsIdle
    /\ FolderIdle
    /\ RegistryIdle
    /\ ui_platform \in UiPlatforms
    /\ op_shift \in BOOLEAN
    /\ op_path \in SeqUpTo(DirNames, MaxDepth)
    /\ op_trailing_sep \in BOOLEAN
    /\ op_path = << >> => op_trailing_sep
    /\ exist_depth \in -1..Len(op_path)
    /\ ui_platform # "win32" => exist_depth >= 0
    /\ op_url \in UrlPool
    /\ op_name = ""
    /\ subprocess_calls = << >>
    /\ opened = << >>
    /\ clipboard = << >>
    /\ message_boxes = << >>
    /\ op_result = << >>
    /\ op_raised = ""

nonOpVars == << installerVars, settingsVars, folderVars, regVars >>

\* cmd = "echo " + txt.strip() + "|clip"; subprocess.check_call(cmd, shell=True)
\* clip is a command of Windows; elsewhere the shell finds none, the pipe exits with a
\* status that is not 0 and check_call raises CalledProcessError.
CopyToClipboard(txt) ==
    LET cmd == "echo " \o Strip(txt) \o "|clip"
    IN  /\ subprocess_calls' = Append(subprocess_calls, << "check_call", cmd >>)
        /\ IF ui_platform = "win32"
           THEN /\ clipboard' = << Strip(txt) \o "\r\n" >>
                /\ op_result' = << "FINISHED" >>
                /\ op_raised' = ""
           ELSE /\ op_raised' = "CalledProcessError"
                /\ UNCHANGED << clipboard, op_result >>
        /\ UNCHANGED << opened, message_boxes >>

\* subprocess.Popen(f'explorer "{path}"'): starts the explorer of Windows; elsewhere
\* there is no such program and Popen raises FileNotFoundError.
PopenExplorer(pathStr) ==
    LET cmd == "explorer \"" \o pathStr \o "\""
    IN  /\ subprocess_calls' = Append(subprocess_calls, << "Popen", cmd >>)
        /\ IF ui_platform = "win32"
           THEN /\ opened' = Append(opened, cmd)
                /\ op_result' = << "FINISHED" >>
                /\ op_raised' = ""
           ELSE /\ op_raised' = "FileNotFoundError"
                /\ UNCHANGED << opened, op_result >>
        /\ UNCHANGED << clipboard, message_boxes >>

\* subprocess.check_call([opener, ..., path]): raises CalledProcessError when the opener
\* exits with a status that is not 0.
CheckCallOpener(cmd) ==
    /\ subprocess_calls' = Append(subprocess_calls, << "check_call", cmd >>)
    /\ \E ok \in BOOLEAN :
         IF ok
         THEN /\ opened' = Append(opened, cmd)
              /\ op_result' = << "FINISHED" >>
              /\ op_raised' = ""
         ELSE /\ op_raised' = "CalledProcessError"
              /\ UNCHANGED << opened, op_result >>
    /\ UNCHANGED << clipboard, message_boxes >>

\* show_message_box(message, title, icon), then return {"FINISHED"}
ShowMessageBox(message, title, icon) ==
    /\ message_boxes' = Append(message_boxes, << SplitLines(message, ""), title, icon >>)
    /\ op_result' = << "FINISHED" >>
    /\ op_raised' = ""
    /\ UNCHANGED << subprocess_calls, opened, clipboard >>

\* open_folder(path)
open_folder(path) ==
    CASE ui_platform = "darwin" -> CheckCallOpener("open -- " \o path)
      [] ui_platform = "linux"  -> CheckCallOpener("xdg-open " \o path)
      [] ui_platform = "win32"  -> PopenExplorer(WindowsPathStr(path))

\* UAS_StampInfo_OpenExplorer.invoke
InvokeOpenExplorer ==
    /\ op_name = ""
    /\ op_name' = "uas_stampinfo.open_explorer"
    /\ LET head == SplitHead(op_path, op_trailing_sep)
           absPathToOpen == PathStr(ui_platform, head) \o "\\"
           cands == Candidates(ui_platform, head)
           k == FirstExisting(cands)
       IN  IF op_shift
           THEN CopyToClipboard(absPathToOpen)
           ELSE IF k > 0
                THEN PopenExplorer(PathStr(ui_platform, cands[k]))
                ELSE ShowMessageBox(absPathToOpen \o " not found",
                                    "Open Explorer - Directory not found", "ERROR")
    /\ UNCHANGED opInputs
    /\ UNCHANGED nonOpVars

\* UAS_OT_Open_Documentation_Url.invoke
InvokeOpenDocumentationUrl ==
    /\ op_name = ""
    /\ op_name' = "stampinfo.open_documentation_url"
    /\ IF op_shift
       THEN CopyToClipboard(op_url)
       ELSE open_folder(op_url)
    /\ UNCHANGED opInputs
    /\ UNCHANGED nonOpVars

NextOperators == InvokeOpenExplorer \/ InvokeOpenDocumentationUrl

SpecOperators == InitOperators /\ [][NextOperators]_vars

\* Properties of the operators (SpecOperators).

\* The directory OpenExplorer is asked to show, its parent and its grandparent.
TargetDirs ==
    LET head == SplitHead(op_path, op_trailing_sep)
    IN  << head, Parent(head), Parent(Parent(head)) >>

\* The text OpenExplorer copies: the directory of its path, with a backslash.
ExplorerText == PathStr(ui_platform, SplitHead(op_path, op_trailing_sep)) \o "\\"

\* OpenExplorer was invoked without Shift: one explorer window on the first existing
\* path among the directory, its parent and its grandparent, or none and one ERROR
\* message box; FINISHED is returned.
OpenedFirstExisting ==
    LET k == FirstExisting(TargetDirs)
    IN  /\ op_result = << "FINISHED" >>
        /\ op_raised = ""
        /\ IF k > 0
           THEN /\ opened = << "explorer \"" \o PathStr(ui_platform, TargetDirs[k]) \o "\"" >>
                /\ message_boxes = << >>
           ELSE /\ opened = << >>
                /\ message_boxes = << << << ExplorerText \o " not found" >>,
                                        "Open Explorer - Directory not found", "ERROR" >> >>

\* C14: UAS_StampInfo_OpenExplorer.invoke without Shift opens exactly one explorer window,
\* on the first existing path among the target directory, its parent and its grandparent;
\* when none exists it opens none and shows a message box with the ERROR icon; in every
\* case it returns FINISHED.
C14_OpensFirstExisting ==
    (op_name = "uas_stampinfo.open_explorer" /\ ~op_shift) => OpenedFirstExisting

\* On Windows the statement of C14 holds.
OpenExplorerOnWindows ==
    (op_name = "uas_stampinfo.open_explorer" /\ ~op_shift /\ ui_platform = "win32")
        => OpenedFirstExisting

\* The directory and its parent are missing, the grandparent exists, on Windows.
OpenExplorerOnWindowsWitness ==
    /\ op_name = "uas_stampinfo.open_explorer"
    /\ ~op_shift
    /\ ui_platform = "win32"
    /\ FirstExisting(TargetDirs) = 3
    /\ Len(opened) = 1

\* The text invoke hands to the clipboard command.
TextToCopy == IF op_name = "uas_stampinfo.open_explorer" THEN ExplorerText ELSE op_url

\* The clipboard commands run.
ClipCalls == { i \in DOMAIN subprocess_calls :
                 subprocess_calls[i] = << "check_call", "echo " \o Strip(TextToCopy) \o "|clip" >> }

\* An operator was invoked with Shift: the text is on the clipboard and nothing was
\* opened or shown.
CopiedOnly ==
    /\ clipboard = << Strip(TextToCopy) \o "\r\n" >>
    /\ opened = << >>
    /\ message_boxes = << >>

\* C15: for both operators, invoke with Shift copies the path or URL to the clipboard and
\* opens nothing (no explorer window, no browser, no message box); invoke without Shift
\* never writes to the clipboard.
C15_ShiftCopiesOnly ==
    op_name # "" =>
        IF op_shift
        THEN CopiedOnly
        ELSE clipboard = << >> /\ ClipCalls = {}

\* On Windows the statement of C15 holds, and with Shift the only subprocess is the
\* clipboard command.
ShiftCopiesOnWindows ==
    (op_name # "" /\ ui_platform = "win32") =>
        IF op_shift
        THEN CopiedOnly /\ Len(subprocess_calls) = 1 /\ ClipCalls = { 1 }
        ELSE clipboard = << >> /\ ClipCalls = {}

\* Without Shift no platform writes to the clipboard; with Shift nothing is opened or shown.
ShiftOpensNothing ==
    op_name # "" =>
        IF op_shift
        THEN opened = << >> /\ message_boxes = << >> /\ ClipCalls = { 1 }
        ELSE clipboard = << >> /\ ClipCalls = {}

-----------------------------------------------------------------------------
\* register() and unregister() of stampinfo/utils/utils_ui.py,
\* stampinfo/operators/debug.py and stampinfo/ui/__init__.py

MaxOtherClasses == 1

\* A class of the host or of another add-on.
OtherClass == "OTHER_OT_operator"

\* The sub-modules of ui, each registered and unregistered as a whole.
SubModules == << "about", "prefs" >>

\* _classes of utils_ui.py and of operators/debug.py; the sub-modules of ui.
Classes(m) ==
    CASE m = "utils_ui" ->
             << "UAS_StampInfo_OpenExplorer", "UAS_OT_Open_Documentation_Url",
                "UAS_OpenFileBrowser", "UAS_StampInfo_OT_Querybox",
                "UAS_ShotManager_UpdateDialog" >>
      [] m = "operators.debug" ->
             << "UAS_Stamp_Info_OT_EnableDebug", "UAS_PT_StampInfoDebug" >>
      [] m = "ui" -> SubModules

\* reversed(seq)
RECURSIVE Reversed(_)
Reversed(seq) == IF seq = << >> THEN << >> ELSE Append(Reversed(Tail(seq)), Head(seq))

\* The order in which register() of a module registers.
RegisterOrder(m) == Classes(m)

\* unregister() that walks in the order of register().
UnregisterOrderForward(m) == Classes(m)

\* The order in which unregister() of a module unregisters.
UnregisterOrder(m) ==
    IF m = "ui" THEN << "prefs", "about" >> ELSE Reversed(Classes(m))

\* bpy.utils.register_class(cls), about.register(), prefs.register(): the host knows cls.
register_class(reg, cls) == Append(reg, cls)

\* bpy.utils.unregister_class(cls), about.unregister(), prefs.unregister(): the host
\* knows cls no more.
unregister_class(reg, cls) == SelectSeq(reg, LAMBDA c : c # cls)

\* for cls in order: bpy.utils.register_class(cls)
RECURSIVE RegisterAll(_, _)
RegisterAll(reg, order) ==
    IF order = << >> THEN reg ELSE RegisterAll(register_class(reg, Head(order)), Tail(order))

\* for cls in order: bpy.utils.unregister_class(cls)
RECURSIVE UnregisterAll(_, _)
UnregisterAll(reg, order) ==
    IF order = << >> THEN reg ELSE UnregisterAll(unregister_class(reg, Head(order)), Tail(order))

InitRegistry ==
    /\ InstallerIdle
    /\ SettingsIdle
    /\ FolderIdle
    /\ OperatorsIdle
    /\ registry \in SeqUpTo({ OtherClass }, MaxOtherClasses)
    /\ registered_modules = {}
    /\ reg_trace = [m \in Modules |-> << >>]
    /\ unreg_trace = [m \in Modules |-> << >>]
    /\ registry_before = [m \in Modules |-> << >>]
    /\ last_reg_ops = << << "none", "" >>, << "none", "" >> >>

nonRegVars == << installerVars, settingsVars, folderVars, opVars >>

\* register() of module m; the host calls it on a module that is not registered.
Register(m) ==
    /\ m \notin registered_modules
    /\ registry' = RegisterAll(registry, RegisterOrder(m))
    /\ registered_modules' = registered_modules \cup { m }
    /\ reg_trace' = [reg_trace EXCEPT ![m] = RegisterOrder(m)]
    /\ unreg_trace' = [unreg_trace EXCEPT ![m] = << >>]
    /\ registry_before' = [registry_before EXCEPT ![m] = registry]
    /\ last_reg_ops' = << last_reg_ops[2], << "register", m >> >>
    /\ UNCHANGED nonRegVars

\* unregister() of module m; the host calls it on a registered module.
Unregister(m) ==
    /\ m \in registered_modules
    /\ registry' = UnregisterAll(registry, UnregisterOrder(m))
    /\ registered_modules' = registered_modules \ { m }
    /\ unreg_trace' = [unreg_trace EXCEPT ![m] = UnregisterOrder(m)]
    /\ last_reg_ops' = << last_reg_ops[2], << "unregister", m >> >>
    /\ UNCHANGED << reg_trace, registry_before >>
    /\ UNCHANGED nonRegVars

NextRegistry == \E m \in Modules : Register(m) \/ Unregister(m)

SpecRegistry == InitRegistry /\ [][NextRegistry]_vars

\* Properties of the registry (SpecRegistry).

\* C16: unregister() of each module removes exactly what its register() added, in the
\* reverse of the registration order (ui: prefs before about), and register() followed by
\* unregister() leaves the registry as it was before register().
C16_UnregisterMirrorsRegister ==
    \A m \in Modules :
        /\ m \in registered_modules =>
              \A c \in Range(Classes(m)) : Count(c, registry) = 1
        /\ m \notin registered_modules =>
              \A c \in Range(Classes(m)) : Count(c, registry) = 0
        /\ unreg_trace[m] # << >> =>
              /\ unreg_trace[m] = Reversed(reg_trace[m])
              /\ Range(unreg_trace[m]) = Range(reg_trace[m])
              /\ Len(unreg_trace[m]) = Len(reg_trace[m])
        /\ last_reg_ops = << << "register", m >>, << "unregister", m >> >> =>
              registry = registry_before[m]

\* utils_ui registered and unregistered while operators.debug is registered and the
\* registry holds a class of another add-on.
C16_Witness ==
    /\ last_reg_ops = << << "register", "utils_ui" >>, << "unregister", "utils_ui" >> >>
    /\ "operators.debug" \in registered_modules
    /\ OtherClass \in Range(registry)
    /\ unreg_trace["ui"] = << "prefs", "about" >>

====
